---- MODULE Spec2Model ----
(***************************************************************************)
(* A model of boids.py: the BoidSimulation engine (constructor, the tick   *)
(* update_boids with its helpers, and the delay keys of run).              *)
(*                                                                         *)
(* Numbers.  The program computes with Python floats.  The model computes  *)
(* with fixed-point numbers: a coordinate or velocity component v is the   *)
(* integer v * Scale, and every float division or multiplication by a      *)
(* fractional factor rounds to the nearest multiple of 1/Scale.  Products  *)
(* of two fixed-point numbers (squared distances, squared speeds) do not   *)
(* fit TLC's 32-bit integers and are kept as two-digit numbers in base     *)
(* Base (the Big operators).                                               *)
(***************************************************************************)
EXTENDS Integers, Sequences, FiniteSets, TLC

VARIABLES
    args,              \* the arguments BoidSimulation(...) was called with, and its random draws
    phase,             \* "new": before __init__; "running"; "failed": __init__ raised; "crashed": a tick raised
    width,             \* self.width
    height,            \* self.height
    visual_range,      \* self.visual_range (an integer, not scaled)
    perception_delay,  \* self.perception_delay
    boids,             \* self.boids: a sequence of Boid records
    ticks,             \* number of calls of update_boids so far
    keys,              \* number of K_UP / K_DOWN events so far
    traj,              \* history variable: traj[k + 1] is every boid's state after tick k
    log                \* history variable: what the last call of update_boids read and computed

vars == <<args, phase, width, height, visual_range, perception_delay, boids,
          ticks, keys, traj, log>>

\* ------------------------------------------------------------------ bounds

MaxTicks == 3
MaxKeys == 2

\* ------------------------------------------------------------- arithmetic

Scale == 100 * 100
Base == Scale * Scale
HalfBase == Scale

Abs(a) == IF a < 0 THEN -a ELSE a
Min(a, b) == IF a < b THEN a ELSE b
Max(a, b) == IF a > b THEN a ELSE b

\* int(a / b) for b # 0: the quotient truncated toward zero.
TruncDiv(a, b) ==
    LET q == Abs(a) \div Abs(b)
    IN  IF (a < 0) = (b < 0) THEN q ELSE -q

\* a / b for b > 0, rounded to the nearest integer (ties away from zero).
RoundDiv(a, b) ==
    LET q == Abs(a) \div b
        r == Abs(a) % b
        m == IF 2 * r >= b THEN q + 1 ELSE q
    IN  IF a < 0 THEN -m ELSE m

\* v * f for a fixed-point v and a factor f = <<numerator, denominator>>.
FMul(v, f) == RoundDiv(v * f[1], f[2])

\* Two-digit naturals <<hi, lo>> = hi * Base + lo with 0 <= lo < Base.
BigAdd(p, q) == <<p[1] + q[1] + ((p[2] + q[2]) \div Base), (p[2] + q[2]) % Base>>
BigLess(p, q) == p[1] < q[1] \/ (p[1] = q[1] /\ p[2] < q[2])

\* v * v for |v| < Base.
BigSq(v) ==
    LET a  == Abs(v) \div HalfBase
        b  == Abs(v) % HalfBase
        m  == 2 * a * b
        lo == (m % HalfBase) * HalfBase + b * b
    IN  <<a * a + (m \div HalfBase) + (lo \div Base), lo % Base>>

RECURSIVE Bisect(_, _, _)
\* The largest s in lo .. hi - 1 with s * s <= q, given lo * lo <= q < hi * hi.
Bisect(q, lo, hi) ==
    IF hi - lo <= 1 THEN lo
    ELSE LET mid == (lo + hi) \div 2
         IN  IF BigLess(q, BigSq(mid)) THEN Bisect(q, lo, mid) ELSE Bisect(q, mid, hi)

\* math.sqrt of a two-digit natural, rounded to the nearest integer.
BigSqrt(q) ==
    LET s == Bisect(q, 0, Base)
    IN  IF BigLess(BigAdd(BigSq(s), <<0, s>>), q) THEN s + 1 ELSE s

RECURSIVE SeqSum(_)
SeqSum(s) == IF s = <<>> THEN 0 ELSE Head(s) + SeqSum(Tail(s))

\* ------------------------------------------------------ program constants

position_maxlen == 100
margin == 200
turn_factor == 1
centering_factor == <<5, 1000>>
min_distance == 20
avoid_factor == <<50, 1000>>
matching_factor == <<50, 1000>>
speed_limit == 10
MinDelay == 1
MaxDelay == 10

\* ------------------------------------------------------------------ deque

\* collections.deque(maxlen = n); a negative maxlen raises ValueError.
Deque(n) == [maxlen |-> n, items |-> <<>>]

\* A deque that forgets its maxlen.
DequeAppendUnbounded(d, sample) == [d EXCEPT !.items = Append(d.items, sample)]

\* deque.append: a full deque drops its oldest item; a deque of maxlen 0 stays empty.
DequeAppend(d, sample) ==
    IF d.maxlen = 0 THEN d
    ELSE IF Len(d.items) >= d.maxlen
         THEN [d EXCEPT !.items = Append(Tail(d.items), sample)]
         ELSE [d EXCEPT !.items = Append(d.items, sample)]

\* seq[k] of Python: a negative k counts from the end; out of range raises IndexError.
PyIndexOK(s, k) == IF k < 0 THEN k + Len(s) >= 0 ELSE k < Len(s)
PyIndex(s, k) == s[(IF k < 0 THEN k + Len(s) ELSE k) + 1]

\* ------------------------------------------------------------ constructor

RECURSIVE FillHistory(_, _, _)
\* for _ in range(n): history.append(sample).  The n appends are done as two
\* halves, the first computed (the test on it is always true) before the second
\* starts, which keeps TLC's evaluation shallow.
FillHistory(d, sample, n) ==
    IF n <= 0 THEN d
    ELSE IF n = 1 THEN DequeAppend(d, sample)
    ELSE LET half == FillHistory(d, sample, n \div 2)
         IN  IF Len(half.items) >= 0
             THEN FillHistory(half, sample, n - (n \div 2))
             ELSE half

\* One pass of the constructor's loop.  A draw holds the four values of
\* np.random.rand(), each a fraction <<numerator, denominator>> in [0, 1).
NewBoid(draw, w, h, delay) ==
    LET x0  == FMul(w * Scale, draw.rx)
        y0  == FMul(h * Scale, draw.ry)
        dx0 == FMul(10 * Scale, draw.rdx) - 5 * Scale
        dy0 == FMul(10 * Scale, draw.rdy) - 5 * Scale
    IN  [x |-> x0, y |-> y0, dx |-> dx0, dy |-> dy0,
         position_history |->
             FillHistory(Deque(position_maxlen), <<x0, y0>>, delay + 1),
         velocity_history |->
             FillHistory(Deque(delay + 1), <<dx0, dy0>>, delay + 1)]

\* deque(maxlen = perception_delay + 1) raises ValueError for a negative maxlen;
\* the loop body runs only for num_boids >= 1.
InitRaises(a) == a.num_boids >= 1 /\ a.perception_delay + 1 < 0

NewBoids(a) ==
    [i \in 1 .. Max(a.num_boids, 0) |->
        NewBoid(a.draws[i], a.width, a.height, a.perception_delay)]

\* What the history variables hold of a boid: its position and velocity.
Snapshot(bs) == [i \in 1 .. Len(bs) |-> [pos |-> <<bs[i].x, bs[i].y>>,
                                           vel |-> <<bs[i].dx, bs[i].dy>>]]

NoLog(bs, delay) ==
    [tick |-> 0, delay |-> delay, pre |-> bs, per |-> <<>>, error |-> "none"]

\* --------------------------------------------------------- neighbour query

visual_range_sq == BigSq(visual_range * Scale)
cell_size == visual_range

\* (int(boid.x / self.cell_size), int(boid.y / self.cell_size))
Cell(b) == <<TruncDiv(b.x, cell_size * Scale), TruncDiv(b.y, cell_size * Scale)>>

\* The grid of update_boids: each occupied cell's boids (by index) in list order.
BuildGrid(bs) ==
    [c \in {Cell(bs[i]) : i \in 1 .. Len(bs)} |->
        SelectSeq([i \in 1 .. Len(bs) |-> i], LAMBDA i : Cell(bs[i]) = c)]

\* The nine cells around a cell, in the order of the two nested loops.
Block(c) ==
    [k \in 1 .. 9 |-> <<c[1] - 1 + ((k - 1) \div 3), c[2] - 1 + ((k - 1) % 3)>>]

RECURSIVE Concat(_)
Concat(ss) == IF ss = <<>> THEN <<>> ELSE Head(ss) \o Concat(Tail(ss))

\* The boids the three nested loops of get_neighbors_with_delay visit, in order.
Candidates(b, grid) ==
    LET blk == Block(Cell(b))
    IN  Concat([k \in 1 .. 9 |-> IF blk[k] \in DOMAIN grid THEN grid[blk[k]] ELSE <<>>])

RECURSIVE ScanCandidates(_, _, _, _, _)
\* The innermost loop body for each candidate in turn.  acc collects the
\* neighbours, and (history variables) the positions read and the candidates
\* skipped for a history not longer than the delay; an IndexError ends the scan.
ScanCandidates(cands, me, bs, delay, acc) ==
    IF cands = <<>> \/ acc.error # "none" THEN acc
    ELSE
      LET o     == Head(cands)
          other == bs[o]
          ph    == other.position_history.items
          vh    == other.velocity_history.items
      IN
      IF o = me THEN ScanCandidates(Tail(cands), me, bs, delay, acc)
      ELSE IF ~(Len(ph) > delay)
      THEN ScanCandidates(Tail(cands), me, bs, delay,
                          [acc EXCEPT !.skipped = Append(@, o)])
      ELSE IF ~PyIndexOK(ph, -delay)
      THEN [acc EXCEPT !.error = "IndexError"]
      ELSE
        LET delayed == PyIndex(ph, -delay)
            ddx     == bs[me].x - delayed[1]
            ddy     == bs[me].y - delayed[2]
            acc1    == [acc EXCEPT !.reads = Append(@, [other |-> o, pos |-> delayed])]
        IN
        IF ~BigLess(BigAdd(BigSq(ddx), BigSq(ddy)), visual_range_sq)
        THEN ScanCandidates(Tail(cands), me, bs, delay, acc1)
        ELSE IF ~PyIndexOK(vh, -delay)
        THEN [acc1 EXCEPT !.error = "IndexError"]
        ELSE ScanCandidates(Tail(cands), me, bs, delay,
                 [acc1 EXCEPT !.neighbors = Append(@,
                     [other |-> o, delayed_x |-> delayed[1], delayed_y |-> delayed[2],
                      delayed_velocity |-> PyIndex(vh, -delay)])])

get_neighbors_with_delay(me, bs, grid, delay) ==
    ScanCandidates(Candidates(bs[me], grid), me, bs, delay,
                   [neighbors |-> <<>>, reads |-> <<>>, skipped |-> <<>>, error |-> "none"])

\* ------------------------------------------------------------ force rules

\* Cohesion without the test on num_neighbors: an empty list gives the centre (0, 0).
fly_towards_center_unguarded(b, neighbors) ==
    LET n       == Len(neighbors)
        centerX == IF n = 0 THEN 0
                   ELSE RoundDiv(SeqSum([k \in 1 .. n |-> neighbors[k].delayed_x]), n)
        centerY == IF n = 0 THEN 0
                   ELSE RoundDiv(SeqSum([k \in 1 .. n |-> neighbors[k].delayed_y]), n)
    IN  [b EXCEPT !.dx = @ + FMul(centerX - b.x, centering_factor),
                  !.dy = @ + FMul(centerY - b.y, centering_factor)]

fly_towards_center(b, neighbors) ==
    LET n       == Len(neighbors)
        centerX == RoundDiv(SeqSum([k \in 1 .. n |-> neighbors[k].delayed_x]), n)
        centerY == RoundDiv(SeqSum([k \in 1 .. n |-> neighbors[k].delayed_y]), n)
    IN  IF n # 0
        THEN [b EXCEPT !.dx = @ + FMul(centerX - b.x, centering_factor),
                       !.dy = @ + FMul(centerY - b.y, centering_factor)]
        ELSE b

\* Separation that adds the accumulated move without avoid_factor.
avoid_others_unscaled(b, neighbors) ==
    LET min_distance_sq == BigSq(min_distance * Scale)
        close(k) == BigLess(BigAdd(BigSq(b.x - neighbors[k].delayed_x),
                                   BigSq(b.y - neighbors[k].delayed_y)),
                            min_distance_sq)
        moveX == SeqSum([k \in 1 .. Len(neighbors) |->
                           IF close(k) THEN b.x - neighbors[k].delayed_x ELSE 0])
        moveY == SeqSum([k \in 1 .. Len(neighbors) |->
                           IF close(k) THEN b.y - neighbors[k].delayed_y ELSE 0])
    IN  [b EXCEPT !.dx = @ + moveX, !.dy = @ + moveY]

avoid_others(b, neighbors) ==
    LET min_distance_sq == BigSq(min_distance * Scale)
        close(k) == BigLess(BigAdd(BigSq(b.x - neighbors[k].delayed_x),
                                   BigSq(b.y - neighbors[k].delayed_y)),
                            min_distance_sq)
        moveX == SeqSum([k \in 1 .. Len(neighbors) |->
                           IF close(k) THEN b.x - neighbors[k].delayed_x ELSE 0])
        moveY == SeqSum([k \in 1 .. Len(neighbors) |->
                           IF close(k) THEN b.y - neighbors[k].delayed_y ELSE 0])
    IN  [b EXCEPT !.dx = @ + FMul(moveX, avoid_factor),
                  !.dy = @ + FMul(moveY, avoid_factor)]

match_velocity(b, neighbors) ==
    LET n     == Len(neighbors)
        avgDX == RoundDiv(SeqSum([k \in 1 .. n |-> neighbors[k].delayed_velocity[1]]), n)
        avgDY == RoundDiv(SeqSum([k \in 1 .. n |-> neighbors[k].delayed_velocity[2]]), n)
    IN  IF n # 0
        THEN [b EXCEPT !.dx = @ + FMul(avgDX - b.dx, matching_factor),
                       !.dy = @ + FMul(avgDY - b.dy, matching_factor)]
        ELSE b

keep_within_bounds(b) ==
    LET b1 == IF b.x < margin * Scale THEN [b EXCEPT !.dx = @ + turn_factor * Scale] ELSE b
        b2 == IF b.x > (width - margin) * Scale
              THEN [b1 EXCEPT !.dx = @ - turn_factor * Scale] ELSE b1
        b3 == IF b.y < margin * Scale THEN [b2 EXCEPT !.dy = @ + turn_factor * Scale] ELSE b2
    IN  IF b.y > (height - margin) * Scale
        THEN [b3 EXCEPT !.dy = @ - turn_factor * Scale] ELSE b3

\* A speed limiter that rescales dx and leaves dy.
limit_speed_dx_only(b) ==
    LET speed == BigSqrt(BigAdd(BigSq(b.dx), BigSq(b.dy)))
    IN  IF speed > speed_limit * Scale
        THEN [b EXCEPT !.dx = RoundDiv(b.dx * Scale, speed) * speed_limit]
        ELSE b

limit_speed(b) ==
    LET speed == BigSqrt(BigAdd(BigSq(b.dx), BigSq(b.dy)))
    IN  IF speed > speed_limit * Scale
        THEN [b EXCEPT !.dx = RoundDiv(b.dx * Scale, speed) * speed_limit,
                       !.dy = RoundDiv(b.dy * Scale, speed) * speed_limit]
        ELSE b

\* ------------------------------------------------------------------- tick

\* boid.x += boid.dx; boid.y += boid.dy; and the two history appends.
Integrate(b) ==
    LET x1 == b.x + b.dx
        y1 == b.y + b.dy
    IN  [b EXCEPT !.x = x1, !.y = y1,
                  !.position_history = DequeAppend(@, <<x1, y1>>),
                  !.velocity_history = DequeAppend(@, <<b.dx, b.dy>>)]

RECURSIVE UpdateFrom(_, _, _, _, _)
\* The second loop of update_boids from boid i on.  bs is self.boids as the
\* boids before i have left it: the grid holds references to these same objects.
\* per (a history variable) records what each boid's pass read and computed.
UpdateFrom(i, bs, grid, delay, per) ==
    IF i > Len(bs) THEN [boids |-> bs, per |-> per, error |-> "none"]
    ELSE
      LET q  == get_neighbors_with_delay(i, bs, grid, delay)
          b1 == fly_towards_center(bs[i], q.neighbors)
          b2 == avoid_others(b1, q.neighbors)
          b3 == match_velocity(b2, q.neighbors)
          b4 == keep_within_bounds(b3)
          b5 == limit_speed(b4)
          b6 == Integrate(b5)
          rec == [candidates |-> Candidates(bs[i], grid),
                  reads      |-> q.reads,
                  skipped    |-> q.skipped,
                  neighbors  |-> q.neighbors,
                  start      |-> <<bs[i].dx, bs[i].dy>>,
                  forces     |-> <<b3.dx, b3.dy>>,
                  bounds     |-> <<b4.dx, b4.dy>>,
                  limited    |-> <<b5.dx, b5.dy>>]
      IN  IF q.error # "none"
          THEN [boids |-> bs, per |-> per, error |-> q.error]
          ELSE UpdateFrom(i + 1, [bs EXCEPT ![i] = b6], grid, delay, Append(per, rec))

\* update_boids on the list bs: the boids it leaves, and how it ended.  The
\* division by a zero cell_size raises in the first loop, before any update.
update_boids(bs, delay) ==
    IF bs # <<>> /\ cell_size = 0
    THEN [boids |-> bs, per |-> <<>>, error |-> "ZeroDivisionError"]
    ELSE UpdateFrom(1, bs, BuildGrid(bs), delay, <<>>)

\* ----------------------------------------------------------------- inputs

Draw(rx, ry, rdx, rdy) == [rx |-> rx, ry |-> ry, rdx |-> rdx, rdy |-> rdy]

\* With the default arena 1024 x 768: A at (0, 0) moving (1, 0), B at (10, 0) moving (-1, 0).
DrawA == Draw(<<0, 1>>, <<0, 1>>, <<3, 5>>, <<1, 2>>)
DrawB == Draw(<<5, 512>>, <<0, 1>>, <<2, 5>>, <<1, 2>>)

Flocks ==
    { <<>>,
      <<DrawA, DrawB>>,
      <<DrawB, DrawA>>,
      \* (1, 300) moving (-4.9, 0), which leaves the arena to the left, and (100, 300) at rest
      <<Draw(<<1, 1024>>, <<25, 64>>, <<1, 100>>, <<1, 2>>),
        Draw(<<25, 256>>, <<25, 64>>, <<1, 2>>, <<1, 2>>)>>,
      \* one boid at (10, 10) moving (4.9, 4.9), which the two lower margins speed up
      <<Draw(<<5, 512>>, <<5, 384>>, <<99, 100>>, <<99, 100>>)>>,
      \* (10, 10) and (20, 20), both moving (4.9, 4.9): the margins and the
      \* separation from the boid behind speed the one in front up
      <<Draw(<<5, 512>>, <<5, 384>>, <<99, 100>>, <<99, 100>>),
        Draw(<<5, 256>>, <<5, 192>>, <<99, 100>>, <<99, 100>>)>>,
      \* three boids within min_distance of each other, away from the margins
      <<Draw(<<25, 64>>, <<25, 64>>, <<3, 5>>, <<7, 10>>),
        Draw(<<51, 128>>, <<51, 128>>, <<3, 10>>, <<3, 5>>),
        Draw(<<99, 256>>, <<13, 32>>, <<1, 2>>, <<1, 5>>)>>,
      \* two boids far apart: (100, 100) moving (0, 1) and (1000, 750) moving (4.9, 4.9)
      <<Draw(<<25, 256>>, <<25, 192>>, <<1, 2>>, <<3, 5>>),
        Draw(<<125, 128>>, <<125, 128>>, <<99, 100>>, <<99, 100>>)>> }

\* --delay values: the default, small ones, the largest a key can set, and
\* values above it, up to and beyond the capacity of the position history.
InitDelays == {1, 2, 10, 12, 99, 100}

MakeArgs(delay, n, range, flock) ==
    [width |-> 1024, height |-> 768, perception_delay |-> delay,
     num_boids |-> n, vis_range |-> range, draws |-> flock]

ValidArgs == {MakeArgs(d, Len(f), 75, f) : d \in InitDelays, f \in Flocks}

AnyArgs ==
    UNION {{MakeArgs(d, Len(f), r, f), MakeArgs(d, -1, r, f)} :
             d \in {-2, -1, 0, 1}, r \in {0, 75}, f \in Flocks}

\* ------------------------------------------------------------ the machine

\* The engine BoidSimulation(**a) returns.
Constructed(a) ==
    /\ args = a
    /\ phase = "running"
    /\ width = a.width
    /\ height = a.height
    /\ visual_range = a.vis_range
    /\ perception_delay = a.perception_delay
    /\ boids = NewBoids(a)
    /\ ticks = 0
    /\ keys = 0
    /\ traj = <<Snapshot(NewBoids(a))>>
    /\ log = NoLog(NewBoids(a), a.perception_delay)

Init == \E a \in ValidArgs : Constructed(a)

\* Before main calls the constructor: nothing of the engine exists.
InitConstruct ==
    /\ args \in AnyArgs
    /\ phase = "new"
    /\ width = 0
    /\ height = 0
    /\ visual_range = 0
    /\ perception_delay = 0
    /\ boids = <<>>
    /\ ticks = 0
    /\ keys = 0
    /\ traj = <<>>
    /\ log = NoLog(<<>>, 0)

\* BoidSimulation.__init__, as main calls it.
Construct ==
    /\ phase = "new"
    /\ width' = args.width
    /\ height' = args.height
    /\ visual_range' = args.vis_range
    /\ perception_delay' = args.perception_delay
    /\ IF InitRaises(args)
       THEN /\ phase' = "failed"
            /\ boids' = <<>>
            /\ traj' = <<>>
            /\ log' = [NoLog(<<>>, args.perception_delay) EXCEPT !.error = "ValueError"]
       ELSE /\ phase' = "running"
            /\ boids' = NewBoids(args)
            /\ traj' = <<Snapshot(NewBoids(args))>>
            /\ log' = NoLog(NewBoids(args), args.perception_delay)
    /\ UNCHANGED <<args, ticks, keys>>

\* One pass of run's loop body after its events: self.update_boids().
Tick ==
    /\ phase = "running"
    /\ ticks < MaxTicks
    /\ LET r == update_boids(boids, perception_delay)
       IN  /\ boids' = r.boids
           /\ phase' = IF r.error = "none" THEN "running" ELSE "crashed"
           /\ traj' = Append(traj, Snapshot(r.boids))
           /\ log' = [tick |-> ticks + 1, delay |-> perception_delay, pre |-> boids,
                      per |-> r.per, error |-> r.error]
    /\ ticks' = ticks + 1
    /\ UNCHANGED <<args, width, height, visual_range, perception_delay, keys>>

\* pygame.K_UP
KeyUp ==
    /\ phase = "running"
    /\ keys < MaxKeys
    /\ perception_delay' = Min(MaxDelay, perception_delay + 1)
    /\ keys' = keys + 1
    /\ UNCHANGED <<args, phase, width, height, visual_range, boids, ticks, traj, log>>

\* pygame.K_DOWN
KeyDown ==
    /\ phase = "running"
    /\ keys < MaxKeys
    /\ perception_delay' = Max(MinDelay, perception_delay - 1)
    /\ keys' = keys + 1
    /\ UNCHANGED <<args, phase, width, height, visual_range, boids, ticks, traj, log>>

Next == Tick \/ KeyUp \/ KeyDown

Spec == Init /\ [][Next]_vars

NextConstruct == Construct \/ Tick \/ KeyUp \/ KeyDown

SpecConstruct == InitConstruct /\ [][NextConstruct]_vars

\* ------------------------------------------------------------- the claims

\* What the last tick recorded, boid by boid (those it processed).
Processed == DOMAIN log.per

\* C1.  Delay semantics: in a tick t > D with a delay D in [1, 10], every
\* position a boid read of another boid, and every velocity it used of a
\* neighbour, is the one that boid held after tick t - D (traj[t - D + 1]),
\* whichever of the two comes first in the list.
C1_DelaySemantics ==
    (log.delay \in MinDelay .. MaxDelay /\ log.tick > log.delay) =>
        \A i \in Processed :
            /\ \A k \in DOMAIN log.per[i].reads :
                   LET r == log.per[i].reads[k]
                   IN  r.pos = traj[log.tick - log.delay + 1][r.other].pos
            /\ \A k \in DOMAIN log.per[i].neighbors :
                   LET n == log.per[i].neighbors[k]
                   IN  /\ <<n.delayed_x, n.delayed_y>> =
                              traj[log.tick - log.delay + 1][n.other].pos
                       /\ n.delayed_velocity =
                              traj[log.tick - log.delay + 1][n.other].vel

\* The boids in the order p, and update_boids run on them.
Reordered(p) == [k \in 1 .. Len(boids) |-> boids[p[k]]]

\* C2.  Frozen snapshot: every position and velocity the last tick read of
\* another boid is the one its history gave at the start of that tick, and a
\* tick from the current state leaves every boid the same whatever the order
\* in which the boids are processed.
C2_FrozenSnapshot ==
    /\ \A i \in Processed :
           /\ \A k \in DOMAIN log.per[i].reads :
                  LET r == log.per[i].reads[k]
                      h == log.pre[r.other].position_history.items
                  IN  PyIndexOK(h, -log.delay) /\ r.pos = PyIndex(h, -log.delay)
           /\ \A k \in DOMAIN log.per[i].neighbors :
                  LET n == log.per[i].neighbors[k]
                      h == log.pre[n.other].velocity_history.items
                  IN  PyIndexOK(h, -log.delay) /\ n.delayed_velocity = PyIndex(h, -log.delay)
    /\ phase = "running" =>
           \A p \in Permutations(1 .. Len(boids)) :
               LET inOrder == update_boids(boids, perception_delay)
                   inP     == update_boids(Reordered(p), perception_delay)
               IN  (inOrder.error = "none" /\ inP.error = "none") =>
                       \A k \in 1 .. Len(boids) : inP.boids[k] = inOrder.boids[p[k]]

\* C3.  Delayed reads are always defined: for an engine constructed with a
\* delay in [1, 10], both histories of every boid hold more than
\* perception_delay samples, no tick raised, and no tick skipped a candidate
\* for a history that was too short.
C3_DelayedReadsDefined ==
    (args.perception_delay \in MinDelay .. MaxDelay) =>
        /\ phase # "crashed"
        /\ \A i \in 1 .. Len(boids) :
               /\ Len(boids[i].position_history.items) > perception_delay
               /\ Len(boids[i].velocity_history.items) > perception_delay
        /\ \A i \in Processed : log.per[i].skipped = <<>>

\* C4.  SetDelay clamping: for an engine constructed with any delay >= 1, the
\* delay is in [1, 10] after every key press.
C4_DelayClamped ==
    (args.perception_delay >= 1 /\ keys >= 1) =>
        perception_delay \in MinDelay .. MaxDelay

\* The state right after the first tick of the scenario of C5: A and B in
\* this order, delay 1.
ScenarioTicked ==
    /\ args.draws = <<DrawA, DrawB>>
    /\ ticks = 1
    /\ log.tick = 1
    /\ log.delay = 1
    /\ log.error = "none"

Near(v, target) == Abs(v - target) <= 1

ValidConfig(a) ==
    /\ a.perception_delay >= 1
    /\ a.vis_range > 0
    /\ a.num_boids >= 0
    /\ a.width > 0
    /\ a.height > 0

\* C6.  Construction validates eagerly: once the constructor has run on an
\* invalid configuration it has failed with ConfigurationError, no boid
\* exists and no tick has run.
C6_ConstructionValidates ==
    (phase # "new" /\ ~ValidConfig(args)) =>
        /\ phase = "failed"
        /\ log.error = "ConfigurationError"
        /\ boids = <<>>
        /\ ticks = 0

\* |a * b| for |a|, |b| < Base, as a two-digit natural.
BigMul(a, b) ==
    LET a1 == Abs(a) \div HalfBase
        a0 == Abs(a) % HalfBase
        b1 == Abs(b) \div HalfBase
        b0 == Abs(b) % HalfBase
        m  == a1 * b0 + a0 * b1
        lo == (m % HalfBase) * HalfBase + a0 * b0
    IN  <<a1 * b1 + (m \div HalfBase) + (lo \div Base), lo % Base>>

Sign(a) == IF a > 0 THEN 1 ELSE IF a < 0 THEN -1 ELSE 0

\* The speed of v is at most speed_limit, to within 0.001.
SpeedWithinLimit(v) ==
    ~BigLess(BigSq(speed_limit * Scale + 10), BigAdd(BigSq(v[1]), BigSq(v[2])))

\* u points where v points: no component has changed sign (one too small for
\* the fixed-point grid may have become 0), and the
\* cross product v[1] * u[2] - v[2] * u[1] is zero to within the rounding of
\* u's components.
SameDirection(v, u) ==
    LET slack == <<0, 10 * (Abs(v[1]) + Abs(v[2]))>>
        p     == BigMul(v[1], u[2])
        q     == BigMul(v[2], u[1])
    IN  /\ Sign(u[1]) \in {0, Sign(v[1])}
        /\ Sign(u[2]) \in {0, Sign(v[2])}
        /\ ~BigLess(BigAdd(p, slack), q)
        /\ ~BigLess(BigAdd(q, slack), p)

\* C7.  Speed bound: every boid's velocity, and every sample of its velocity
\* history, has speed at most speed_limit (up to rounding); and in the last
\* tick, a velocity that limit_speed changed kept its direction, and a
\* velocity whose speed exceeded the limit was changed.
C7_SpeedBound ==
    /\ \A i \in 1 .. Len(boids) :
           /\ SpeedWithinLimit(<<boids[i].dx, boids[i].dy>>)
           /\ \A k \in DOMAIN boids[i].velocity_history.items :
                  SpeedWithinLimit(boids[i].velocity_history.items[k])
    /\ \A i \in Processed :
           LET v == log.per[i].bounds
               u == log.per[i].limited
           IN  /\ u # v => SameDirection(v, u)
               /\ ~SpeedWithinLimit(v) => u # v
               /\ <<boids[i].dx, boids[i].dy>> = u

C7_Witness ==
    \E i \in Processed :
        /\ ~SpeedWithinLimit(log.per[i].bounds)
        /\ log.per[i].limited # log.per[i].bounds
        /\ log.per[i].neighbors # <<>>

\* C8.  Isolation: a boid that had no neighbour in the last tick left the
\* three rules with the velocity it entered them with; its velocity after the
\* tick differs from it only by the turn of keep_within_bounds on each axis
\* and the rescaling of limit_speed.
C8_Isolation ==
    \A i \in Processed :
        log.per[i].neighbors = <<>> =>
            /\ log.per[i].forces = log.per[i].start
            /\ \A c \in 1 .. 2 :
                   log.per[i].bounds[c] - log.per[i].start[c]
                       \in {-turn_factor * Scale, 0, turn_factor * Scale}
            /\ \/ log.per[i].limited = log.per[i].bounds
               \/ /\ ~SpeedWithinLimit(log.per[i].bounds)
                  /\ SameDirection(log.per[i].bounds, log.per[i].limited)
            /\ <<boids[i].dx, boids[i].dy>> = log.per[i].limited

C8_Witness ==
    \E i \in Processed :
        /\ log.per[i].neighbors = <<>>
        /\ log.per[i].candidates # <<i>>
        /\ log.per[i].bounds # log.per[i].start

\* old with one sample pushed at capacity cap gives new: one sample more, or,
\* from a full buffer, the oldest gone and the others in their order.
PushedOne(old, new, cap) ==
    /\ Len(new) = Min(Len(old) + 1, cap)
    /\ IF Len(old) < cap
       THEN SubSeq(new, 1, Len(old)) = old
       ELSE SubSeq(new, 1, cap - 1) = SubSeq(old, 2, cap)

FloorCell(b) == <<b.x \div (cell_size * Scale), b.y \div (cell_size * Scale)>>

SeqToSet(s) == {s[k] : k \in DOMAIN s}

\* C10.  Grid correctness: the candidates each boid iterated over in the last
\* tick are, each once, the boids whose floor-division cell at the start of
\* the tick lies within one cell, on both axes, of the boid's own.
C10_GridCorrectness ==
    \A i \in Processed :
        /\ Len(log.per[i].candidates) = Cardinality(SeqToSet(log.per[i].candidates))
        /\ SeqToSet(log.per[i].candidates) =
               {o \in 1 .. Len(log.pre) :
                   /\ Abs(FloorCell(log.pre[o])[1] - FloorCell(log.pre[i])[1]) <= 1
                   /\ Abs(FloorCell(log.pre[o])[2] - FloorCell(log.pre[i])[2]) <= 1}

====
